---- MODULE Spec2Model ----
(***************************************************************************)
(* The Speccs backend (app.py): the relational data model declared with    *)
(* Flask-SQLAlchemy (Property -> Building -> Floor -> Room -> Asset, with   *)
(* Connection and Journal rows hanging off Asset) and the two JSON          *)
(* endpoints on Property.  The store is the PostgreSQL database behind the  *)
(* ORM session; every operation is one unit of work: the ORM flushes a     *)
(* list of SQL statements, the database checks its primary-key, NOT NULL    *)
(* and foreign-key constraints after each statement, and the unit of work   *)
(* is either committed whole or rolled back whole.  Rows keep the columns   *)
(* that a constraint, a relationship or a serializer of the model reads     *)
(* (keys, foreign keys, and for Property its name, address and timestamps). *)
(***************************************************************************)
EXTENDS Integers, Sequences, FiniteSets, Bags, TLC

\* ---------------------------------------------------------------- bounds

\* The server clock (db.func.now()) runs from 0 to MaxTime.
MaxTime == 2
\* The journal id sequence hands out the ids 1..MaxJournalId.
MaxJournalId == 1
\* The store holds at most MaxRows rows over all tables.
MaxRows == 5

\* ------------------------------------------------------------ value sets

\* Python None / SQL NULL / JSON null.
NULL == "NULL"

\* The values uuid.uuid4() can return for each table (default_uuid).
PropertyIds == {"p1", "p2"}
BuildingIds == {"b1", "b2"}
FloorIds == {"f1", "f2"}
RoomIds == {"r1", "r2"}
AssetIds == {"a1", "a2"}
ConnectionIds == {"c1"}

\* JSON values a request may carry under "name" and under "address".
NameValues == {NULL, "", "Main Tower", "Annex"}
AddressValues == {NULL, "1 Main St"}

\* request.get_json(): None (<<>>), or a one-element wrapper <<m>> around a
\* JSON object m with any subset of the keys "name" and "address".
None == <<>>
JsonObjects ==
    LET names == [{"name"} -> NameValues]
        addresses == [{"address"} -> AddressValues]
    IN  {[k \in {} |-> NULL]} \cup names \cup addresses
            \cup { n @@ a : n \in names, a \in addresses }
Bodies == {None} \cup { <<m>> : m \in JsonObjects }

VARIABLES
    properties,    \* table properties:  id -> [name, address, created_at, updated_at]
    buildings,     \* table buildings:   id -> [property_id]
    floors,        \* table floors:      id -> [building_id]
    rooms,         \* table rooms:       id -> [floor_id, reference_door_asset_id]
    assets,        \* table assets:      id -> [room_id]
    connections,   \* table connections: id -> [from_asset_id, to_asset_id]
    journal,       \* table journal:     id -> [asset_id]
    journal_seq,   \* last value handed out by the journal id sequence
    now,           \* the database server's clock
    txn,           \* the last unit of work: [op: "none", "add Property", ...,
                   \*   "delete Asset"; outcome: "none", "committed", "rolled_back"]
    response,      \* the last HTTP response of the Property endpoints: [status, body]
    created        \* history: bag of the [name, address] inputs answered 201

vars == <<properties, buildings, floors, rooms, assets, connections, journal,
          journal_seq, now, txn, response, created>>

tables == <<properties, buildings, floors, rooms, assets, connections, journal>>

\* ------------------------------------------------------------- the store

\* The committed contents of the seven tables, as one value.
DB ==
    [ properties |-> properties, buildings |-> buildings, floors |-> floors,
      rooms |-> rooms, assets |-> assets, connections |-> connections,
      journal |-> journal ]

EmptyTable == [x \in {} |-> NULL]

\* properties.name is NOT NULL.
PropertyColumnsOK(d) ==
    \A p \in DOMAIN d.properties : d.properties[p].name # NULL

\* buildings.property_id: NOT NULL, ForeignKey('properties.id').
BuildingColumnsOK(d) ==
    \A b \in DOMAIN d.buildings : d.buildings[b].property_id \in DOMAIN d.properties

\* floors.building_id: NOT NULL, ForeignKey('buildings.id').
FloorColumnsOK(d) ==
    \A f \in DOMAIN d.floors : d.floors[f].building_id \in DOMAIN d.buildings

\* Faulty variant: the reference-door column declared without its ForeignKey.
ReferenceDoorFK_Unchecked(d) == TRUE

\* rooms.reference_door_asset_id: nullable, ForeignKey('assets.id'), no ON
\* DELETE rule and not deferrable.
ReferenceDoorFKOK(d) ==
    \A r \in DOMAIN d.rooms :
        d.rooms[r].reference_door_asset_id \in {NULL} \cup DOMAIN d.assets

\* rooms.floor_id: NOT NULL, ForeignKey('floors.id'); and the reference door.
RoomColumnsOK(d) ==
    /\ \A r \in DOMAIN d.rooms : d.rooms[r].floor_id \in DOMAIN d.floors
    /\ ReferenceDoorFKOK(d)

\* assets.room_id: nullable, ForeignKey('rooms.id').
AssetColumnsOK(d) ==
    \A a \in DOMAIN d.assets : d.assets[a].room_id \in {NULL} \cup DOMAIN d.rooms

\* connections.from_asset_id, to_asset_id: NOT NULL, ForeignKey('assets.id').
ConnectionColumnsOK(d) ==
    \A c \in DOMAIN d.connections :
        /\ d.connections[c].from_asset_id \in DOMAIN d.assets
        /\ d.connections[c].to_asset_id \in DOMAIN d.assets

\* journal.asset_id: NOT NULL, ForeignKey('assets.id').
JournalColumnsOK(d) ==
    \A j \in DOMAIN d.journal : d.journal[j].asset_id \in DOMAIN d.assets

\* What the database checks after every statement.
ConstraintsOK(d) ==
    /\ PropertyColumnsOK(d)
    /\ BuildingColumnsOK(d)
    /\ FloorColumnsOK(d)
    /\ RoomColumnsOK(d)
    /\ AssetColumnsOK(d)
    /\ ConnectionColumnsOK(d)
    /\ JournalColumnsOK(d)

\* SQL statements the ORM emits.
Ins(t, id, row) == [kind |-> "insert", table |-> t, id |-> id, row |-> row, col |-> NULL, val |-> NULL]
Upd(t, id, col, val) == [kind |-> "update", table |-> t, id |-> id, row |-> NULL, col |-> col, val |-> val]
Del(t, id) == [kind |-> "delete", table |-> t, id |-> id, row |-> NULL, col |-> NULL, val |-> NULL]

\* Faulty variant: id declared without primary_key=True, so an INSERT over a stored
\* id replaces the row.
PrimaryKey_Unchecked(d, s) == TRUE

\* An INSERT of an id already in the table violates the primary key.
PrimaryKeyOK(d, s) ==
    s.kind = "insert" => s.id \notin DOMAIN d[s.table]

\* The tables after one statement.
Apply(d, s) ==
    CASE s.kind = "insert" ->
            [d EXCEPT ![s.table] = (s.id :> s.row) @@ d[s.table]]
      [] s.kind = "update" ->
            IF s.id \in DOMAIN d[s.table]
            THEN [d EXCEPT ![s.table][s.id][s.col] = s.val]
            ELSE d
      [] s.kind = "delete" ->
            [d EXCEPT ![s.table] = [x \in DOMAIN d[s.table] \ {s.id} |-> d[s.table][x]]]

\* A flush: the statements run in order inside one transaction; the first
\* one that violates a constraint raises and ends the flush.
RECURSIVE Flush(_, _)
Flush(d, stmts) ==
    IF stmts = <<>>
    THEN [ok |-> TRUE, db |-> d]
    ELSE LET s == Head(stmts)
             d2 == Apply(d, s)
         IN  IF PrimaryKeyOK(d, s) /\ ConstraintsOK(d2)
             THEN Flush(d2, Tail(stmts))
             ELSE [ok |-> FALSE, db |-> d]

\* The elements of a finite set in some order.
RECURSIVE SetToSeq(_)
SetToSeq(S) ==
    IF S = {} THEN <<>>
    ELSE LET x == CHOOSE y \in S : TRUE
         IN  <<x>> \o SetToSeq(S \ {x})

\* Faulty variant: the except branch without db.session.rollback(): what the flush
\* wrote before the failure stays.
UnitOfWork_NoRollback(op, stmts, fail) ==
    \E r \in {Flush(DB, stmts)} :
        /\ properties' = r.db.properties
        /\ buildings' = r.db.buildings
        /\ floors' = r.db.floors
        /\ rooms' = r.db.rooms
        /\ assets' = r.db.assets
        /\ connections' = r.db.connections
        /\ journal' = r.db.journal
        /\ txn' = [op |-> op,
                   outcome |-> IF r.ok /\ ~fail THEN "committed" ELSE "rolled_back"]

\* try: flush; commit / except: rollback.  `op` is what the session was
\* asked to do; `fail` is the database refusing the work for a reason of its
\* own (connection lost, statement timeout).
UnitOfWork(op, stmts, fail) ==
    \E r \in {Flush(DB, stmts)} :
        \E d \in {IF r.ok /\ ~fail THEN r.db ELSE DB} :
            /\ properties' = d.properties
            /\ buildings' = d.buildings
            /\ floors' = d.floors
            /\ rooms' = d.rooms
            /\ assets' = d.assets
            /\ connections' = d.connections
            /\ journal' = d.journal
            /\ txn' = [op |-> op,
                       outcome |-> IF r.ok /\ ~fail THEN "committed" ELSE "rolled_back"]

\* ------------------------------------------------------------ Property

\* datetime.isoformat(): the timestamp as text.
isoformat(t) == "T" \o ToString(t)

\* Property.to_dict.
to_dict(id, row) ==
    [ id |-> id,
      name |-> row.name,
      address |-> row.address,
      created_at |-> IF row.created_at \in Nat THEN isoformat(row.created_at) ELSE NULL,
      updated_at |-> IF row.updated_at \in Nat THEN isoformat(row.updated_at) ELSE NULL ]

\* dict.get(k): the value, or None.
Get(m, k) == IF k \in DOMAIN m THEN m[k] ELSE NULL

\* Faulty variant: `data is None or data.get('name') is None`, which lets an empty
\* name through.
NameRequired_NoneOnly(data) ==
    \/ data = None
    \/ Get(data[1], "name") = NULL

\* `not data or not data.get('name')`: None, {}, a missing, null or empty name.
NameRequired(data) ==
    \/ data = None
    \/ DOMAIN data[1] = {}
    \/ Get(data[1], "name") \in {NULL, ""}

\* Faulty variant: the address of the request is not passed to Property(...).
new_property_without_address(data) ==
    [ name |-> data[1]["name"],
      address |-> NULL,
      created_at |-> now,
      updated_at |-> now ]

\* Property(name=data['name'], address=data.get('address')) as the row the
\* INSERT writes: both timestamps are the server default now().
new_property(data) ==
    [ name |-> data[1]["name"],
      address |-> Get(data[1], "address"),
      created_at |-> now,
      updated_at |-> now ]

\* POST /api/properties.  `id` is what uuid4() returns for the new row.
create_property(data, id, fail) ==
    /\ IF NameRequired(data)
       THEN /\ response' = [status |-> 400, body |-> [error |-> "Property name is required"]]
            /\ UNCHANGED <<tables, txn>>
       ELSE /\ UnitOfWork("add Property", <<Ins("properties", id, new_property(data))>>, fail)
            /\ response' =
                 IF txn'.outcome = "committed"
                 THEN [status |-> 201, body |-> to_dict(id, properties'[id])]
                 ELSE [status |-> 500, body |-> [error |-> "Failed to create property"]]
    /\ UNCHANGED <<journal_seq, now>>

\* Property.query.all(): every row, in an order the database chooses.
all_properties == SetToSeq(DOMAIN properties)

\* GET /api/properties.
get_properties(fail) ==
    /\ response' =
         IF fail
         THEN [status |-> 500, body |-> [error |-> "Failed to fetch properties"]]
         ELSE [status |-> 200,
               body |-> [i \in 1..Len(all_properties) |->
                            to_dict(all_properties[i], properties[all_properties[i]])]]
    /\ UNCHANGED <<tables, journal_seq, now, txn>>

\* Time passes on the database server.
Tick ==
    /\ now < MaxTime
    /\ now' = now + 1
    /\ UNCHANGED <<tables, journal_seq, txn, response, created>>

\* ----------------------------------------------------- the HTTP surface

Init ==
    /\ properties = EmptyTable
    /\ buildings = EmptyTable
    /\ floors = EmptyTable
    /\ rooms = EmptyTable
    /\ assets = EmptyTable
    /\ connections = EmptyTable
    /\ journal = EmptyTable
    /\ journal_seq = 0
    /\ now = 0
    /\ txn = [op |-> "none", outcome |-> "none"]
    /\ response = [status |-> 0, body |-> NULL]
    /\ created = EmptyBag

\* A POST /api/properties request, with the history of what was created.
PostProperty ==
    \E data \in Bodies, id \in PropertyIds, fail \in BOOLEAN :
        /\ create_property(data, id, fail)
        /\ created' =
             IF response'.status = 201
             THEN created (+) SetToBag({[name |-> data[1]["name"],
                                         address |-> Get(data[1], "address")]})
             ELSE created

\* A GET /api/properties request.
ListProperties ==
    \E fail \in BOOLEAN :
        /\ get_properties(fail)
        /\ UNCHANGED created

NextApi == PostProperty \/ ListProperties \/ Tick

\* The service as implemented: the two Property endpoints over the store.
SpecApi == Init /\ [][NextApi]_vars

\* ------------------------------------------------- relationship loading

\* Property.buildings of the properties in P.
Property_buildings(d, P) == { b \in DOMAIN d.buildings : d.buildings[b].property_id \in P }

\* Building.floors of the buildings in B.
Building_floors(d, B) == { f \in DOMAIN d.floors : d.floors[f].building_id \in B }

\* Faulty variant: Floor.rooms joined without the floor_id condition.
Floor_rooms_unjoined(d, F) == DOMAIN d.rooms

\* Floor.rooms of the floors in F.
Floor_rooms(d, F) == { r \in DOMAIN d.rooms : d.rooms[r].floor_id \in F }

\* Room.assets of the rooms in R (foreign_keys='Asset.room_id').
Room_assets(d, R) == { a \in DOMAIN d.assets : d.assets[a].room_id \in R }

\* Asset.connections_from, Asset.connections_to, Asset.journal_entries.
Asset_connections_from(d, a) ==
    { c \in DOMAIN d.connections : d.connections[c].from_asset_id = a }
Asset_connections_to(d, a) ==
    { c \in DOMAIN d.connections : d.connections[c].to_asset_id = a }
Asset_journal_entries(d, a) ==
    { j \in DOMAIN d.journal : d.journal[j].asset_id = a }

\* One DELETE per row of S in table t.
DelFrom(t, S) ==
    LET q == SetToSeq(S) IN [i \in 1..Len(q) |-> Del(t, q[i])]

\* One UPDATE per row of S in table t, setting col to val.
UpdAll(t, S, col, val) ==
    LET q == SetToSeq(S) IN [i \in 1..Len(q) |-> Upd(t, q[i], col, val)]

\* ------------------------------------ session.delete(obj): the flush plan

\* Deleting rooms.  Room.assets carries no delete cascade, so the ORM
\* detaches the rooms' assets (UPDATE assets SET room_id = NULL); the
\* reference_door relationship is post_update, so the ORM first clears the
\* rooms' own reference_door_asset_id; then the rooms go.
RoomDeleteStmts(d, R) ==
    UpdAll("assets", Room_assets(d, R), "room_id", NULL)
      \o UpdAll("rooms", { r \in R : d.rooms[r].reference_door_asset_id # NULL },
                "reference_door_asset_id", NULL)
      \o DelFrom("rooms", R)

\* Deleting floors: Floor.rooms is cascade="all, delete-orphan".
FloorDeleteStmts(d, F) ==
    RoomDeleteStmts(d, Floor_rooms(d, F)) \o DelFrom("floors", F)

\* Deleting buildings: Building.floors is cascade="all, delete-orphan".
BuildingDeleteStmts(d, B) ==
    FloorDeleteStmts(d, Building_floors(d, B)) \o DelFrom("buildings", B)

\* Deleting a property: Property.buildings is cascade="all, delete-orphan".
PropertyDeleteStmts(d, p) ==
    BuildingDeleteStmts(d, Property_buildings(d, {p})) \o DelFrom("properties", {p})

\* Faulty variant: connections_to declared without cascade, so the ORM detaches the
\* incoming connections (to_asset_id = NULL) instead of deleting them.
AssetDeleteStmts_incoming_detached(d, a) ==
    UpdAll("connections", Asset_connections_to(d, a) \ Asset_connections_from(d, a),
           "to_asset_id", NULL)
      \o DelFrom("connections", Asset_connections_from(d, a))
      \o DelFrom("journal", Asset_journal_entries(d, a))
      \o DelFrom("assets", {a})

\* Deleting an asset: connections_from, connections_to and journal_entries
\* are cascade="all, delete-orphan".  Nothing on Asset names the rooms that
\* use it as their reference door, so the ORM leaves those rooms alone.
AssetDeleteStmts(d, a) ==
    DelFrom("connections", Asset_connections_from(d, a) \cup Asset_connections_to(d, a))
      \o DelFrom("journal", Asset_journal_entries(d, a))
      \o DelFrom("assets", {a})

\* Faulty variant: Room.reference_door without post_update=True: the room's INSERT
\* carries the door, which is not stored yet.
MutualPairStmts_without_post_update(r, f, a) ==
    << Ins("rooms", r, [floor_id |-> f, reference_door_asset_id |-> a]),
       Ins("assets", a, [room_id |-> r]) >>

\* A Room and its reference door Asset, each pointing at the other, added in
\* one session.  post_update=True on Room.reference_door breaks the cycle:
\* the room is inserted without its door, then the asset, then the room's
\* reference_door_asset_id is set by a second statement.
MutualPairStmts(r, f, a) ==
    << Ins("rooms", r, [floor_id |-> f, reference_door_asset_id |-> NULL]),
       Ins("assets", a, [room_id |-> r]),
       Upd("rooms", r, "reference_door_asset_id", a) >>

\* ------------------------------------------------ units of work on the
\* other models, each following create_property: add or delete, commit,
\* roll back on an exception.

\* Rows in the store.
Rows ==
    Cardinality(DOMAIN properties) + Cardinality(DOMAIN buildings)
      + Cardinality(DOMAIN floors) + Cardinality(DOMAIN rooms)
      + Cardinality(DOMAIN assets) + Cardinality(DOMAIN connections)
      + Cardinality(DOMAIN journal)

OrmStep(op, stmts) ==
    /\ UnitOfWork(op, stmts, FALSE)
    /\ UNCHANGED <<journal_seq, now, response, created>>

\* A Property as create_property stores it: session.add(obj); commit.
AddProperty(id) ==
    /\ Rows < MaxRows
    /\ OrmStep("add Property", <<Ins("properties", id, new_property(<<[name |-> "Main Tower"]>>))>>)

AddBuilding(id, property_id) ==
    /\ Rows < MaxRows
    /\ OrmStep("add Building", <<Ins("buildings", id, [property_id |-> property_id])>>)

AddFloor(id, building_id) ==
    /\ Rows < MaxRows
    /\ OrmStep("add Floor", <<Ins("floors", id, [building_id |-> building_id])>>)

AddRoom(id, floor_id, door) ==
    /\ Rows < MaxRows
    /\ OrmStep("add Room", <<Ins("rooms", id, [floor_id |-> floor_id,
                                          reference_door_asset_id |-> door])>>)

AddAsset(id, room_id) ==
    /\ Rows < MaxRows
    /\ OrmStep("add Asset", <<Ins("assets", id, [room_id |-> room_id])>>)

AddConnection(id, from, to) ==
    /\ Rows < MaxRows
    /\ OrmStep("add Connection", <<Ins("connections", id, [from_asset_id |-> from,
                                                to_asset_id |-> to])>>)

\* Journal.id comes from the table's sequence; a value drawn is never
\* handed out again, whether or not the insert commits.
AddJournal(asset_id) ==
    /\ Rows < MaxRows
    /\ journal_seq < MaxJournalId
    /\ journal_seq' = journal_seq + 1
    /\ UnitOfWork("add Journal", <<Ins("journal", journal_seq + 1, [asset_id |-> asset_id])>>, FALSE)
    /\ UNCHANGED <<now, response, created>>

\* Room(floor_id=f, reference_door=door) and door = Asset(room=room), added
\* to the session in either order and committed together.
AddRoomWithDoor(r, f, a) ==
    /\ Rows + 1 < MaxRows
    /\ OrmStep("add Room and Asset", MutualPairStmts(r, f, a))

\* room.reference_door_asset_id = door; commit.
SetReferenceDoor(r, door) ==
    /\ r \in DOMAIN rooms
    /\ OrmStep("set Room.reference_door", <<Upd("rooms", r, "reference_door_asset_id", door)>>)

\* asset.room_id = room_id; commit.
SetAssetRoom(a, room_id) ==
    /\ a \in DOMAIN assets
    /\ OrmStep("set Asset.room", <<Upd("assets", a, "room_id", room_id)>>)

\* session.delete(obj); commit.
DeleteProperty(p) ==
    /\ p \in DOMAIN properties
    /\ OrmStep("delete Property", PropertyDeleteStmts(DB, p))

DeleteBuilding(b) ==
    /\ b \in DOMAIN buildings
    /\ OrmStep("delete Building", BuildingDeleteStmts(DB, {b}))

DeleteFloor(f) ==
    /\ f \in DOMAIN floors
    /\ OrmStep("delete Floor", FloorDeleteStmts(DB, {f}))

DeleteRoom(r) ==
    /\ r \in DOMAIN rooms
    /\ OrmStep("delete Room", RoomDeleteStmts(DB, {r}))

DeleteAsset(a) ==
    /\ a \in DOMAIN assets
    /\ OrmStep("delete Asset", AssetDeleteStmts(DB, a))

Next ==
    \/ \E id \in PropertyIds : AddProperty(id)
    \/ \E id \in BuildingIds, p \in PropertyIds : AddBuilding(id, p)
    \/ \E id \in FloorIds, b \in BuildingIds : AddFloor(id, b)
    \/ \E id \in RoomIds, f \in FloorIds, door \in {NULL} \cup AssetIds : AddRoom(id, f, door)
    \/ \E id \in AssetIds, r \in {NULL} \cup RoomIds : AddAsset(id, r)
    \/ \E id \in ConnectionIds, from \in AssetIds, to \in AssetIds : AddConnection(id, from, to)
    \/ \E a \in AssetIds : AddJournal(a)
    \/ \E r \in RoomIds, f \in FloorIds, a \in AssetIds : AddRoomWithDoor(r, f, a)
    \/ \E r \in RoomIds, door \in {NULL} \cup AssetIds : SetReferenceDoor(r, door)
    \/ \E a \in AssetIds, r \in {NULL} \cup RoomIds : SetAssetRoom(a, r)
    \/ \E p \in PropertyIds : DeleteProperty(p)
    \/ \E b \in BuildingIds : DeleteBuilding(b)
    \/ \E f \in FloorIds : DeleteFloor(f)
    \/ \E r \in RoomIds : DeleteRoom(r)
    \/ \E a \in AssetIds : DeleteAsset(a)

\* The data model under every unit of work the declared relationships allow.
Spec == Init /\ [][Next]_vars

\* ================================================================ claims

\* The tables after a step hold every row of `old` outside `gone`, unchanged.
Kept(old, new, gone) ==
    \A x \in DOMAIN old \ gone : x \in DOMAIN new /\ new[x] = old[x]

\* What a property, building, floor or room owns, in the current state.
BuildingsIn(P) == { b \in DOMAIN buildings : buildings[b].property_id \in P }
FloorsIn(B) == { f \in DOMAIN floors : floors[f].building_id \in B }
RoomsIn(F) == { r \in DOMAIN rooms : rooms[r].floor_id \in F }
AssetsIn(R) == { a \in DOMAIN assets : assets[a].room_id \in R }
ConnectionsOn(A) ==
    { c \in DOMAIN connections :
        connections[c].from_asset_id \in A \/ connections[c].to_asset_id \in A }
JournalOn(A) == { j \in DOMAIN journal : journal[j].asset_id \in A }

\* ---- C1.  Deleting a Property leaves none of the Buildings, Floors, Rooms
\* and Assets it transitively owned (Assets through room_id), and no
\* Connection or Journal row that references one of those Assets.
C1_PropertyDeleteRemovesDescendants ==
    [][ \A p \in PropertyIds :
          (txn'.op = "delete Property" /\ DeleteProperty(p)) =>
            LET B == BuildingsIn({p})
                F == FloorsIn(B)
                R == RoomsIn(F)
                A == AssetsIn(R)
            IN  /\ p \notin DOMAIN properties'
                /\ B \cap DOMAIN buildings' = {}
                /\ F \cap DOMAIN floors' = {}
                /\ R \cap DOMAIN rooms' = {}
                /\ A \cap DOMAIN assets' = {}
                /\ \A c \in DOMAIN connections' :
                       /\ connections'[c].from_asset_id \notin A
                       /\ connections'[c].to_asset_id \notin A
                /\ \A j \in DOMAIN journal' : journal'[j].asset_id \notin A ]_vars

C3_FailedCreateIsRolledBack ==
    [][ \A data \in Bodies, id \in PropertyIds, fail \in BOOLEAN :
          ( /\ data # None
            /\ "name" \in DOMAIN data[1]
            /\ data[1]["name"] \notin {NULL, ""}
            /\ (fail \/ id \in DOMAIN properties)
            /\ create_property(data, id, fail) )
          => /\ txn' = [op |-> "add Property", outcome |-> "rolled_back"]
             /\ response' = [status |-> 500,
                             body |-> [error |-> "Failed to create property"]]
             /\ tables' = tables ]_vars

C3_Witness ==
    /\ response.status = 500
    /\ response.body.error = "Failed to create property"
    /\ txn.outcome = "rolled_back"
    /\ DOMAIN properties # {}

\* The [name, address] pairs of a list of serialized properties, as a bag.
RECURSIVE NameAddressBag(_)
NameAddressBag(list) ==
    IF list = <<>> THEN EmptyBag
    ELSE SetToBag({[name |-> Head(list).name, address |-> Head(list).address]})
           (+) NameAddressBag(Tail(list))

\* ---- C4.  Starting from an empty store, after N successful creates (any
\* names and addresses, duplicates included) GET /api/properties returns
\* exactly N entries, one per created Property (no id twice), carrying
\* between them exactly the names and addresses supplied.
C4_ListReturnsEveryCreatedProperty ==
    response.status = 200 =>
        /\ Len(response.body) = BagCardinality(created)
        /\ NameAddressBag(response.body) = created
        /\ \A i, j \in 1..Len(response.body) :
               response.body[i].id = response.body[j].id => i = j

C4_Witness ==
    /\ response.status = 200
    /\ Len(response.body) = 2
    /\ response.body[1].name = response.body[2].name

\* ---- C5.  A successful create answers 201 with an id that no stored
\* Property had before the request, the name and address of the input
\* (address null when omitted), and created_at and updated_at both set and
\* equal.
C5_CreatedResponseEchoesInput ==
    [][ \A data \in Bodies, id \in PropertyIds, fail \in BOOLEAN :
          ( /\ response'.status = 201
            /\ create_property(data, id, fail) )
          => /\ response'.body.id \notin DOMAIN properties
             /\ response'.body.id \in DOMAIN properties'
             /\ response'.body.name = data[1]["name"]
             /\ response'.body.address =
                  (IF "address" \in DOMAIN data[1] THEN data[1]["address"] ELSE NULL)
             /\ response'.body.created_at # NULL
             /\ response'.body.updated_at = response'.body.created_at
             /\ properties'[response'.body.id].name = data[1]["name"] ]_vars

C5_Witness ==
    /\ response.status = 201
    /\ response.body.address = NULL
    /\ Cardinality(DOMAIN properties) = 2

\* A Room and an Asset that reference each other.
MutualPair(r, a) ==
    /\ r \in DOMAIN rooms
    /\ a \in DOMAIN assets
    /\ rooms[r].reference_door_asset_id = a
    /\ assets[a].room_id = r

\* ---- C6.  A Room and its reference-door Asset that lies in that Room can
\* be brought into storage whichever is created first, and the circular
\* reference never makes a step fail: adding the two together in one
\* session commits; Room first, an Asset created in it, then the door set
\* commits; Asset first, the Room created with it as door, then the Asset
\* moved into the Room commits.
C6_MutualReferenceInEitherOrder ==
    [][ /\ txn'.op = "add Room and Asset" =>
             \A r \in RoomIds, f \in FloorIds, a \in AssetIds :
               ( /\ r \notin DOMAIN rooms
                 /\ a \notin DOMAIN assets
                 /\ f \in DOMAIN floors
                 /\ AddRoomWithDoor(r, f, a) )
               => (txn'.outcome = "committed" /\ MutualPair(r, a)')
        /\ txn'.op = "add Asset" =>
             \A r \in RoomIds, a \in AssetIds :
               ( /\ a \notin DOMAIN assets
                 /\ r \in DOMAIN rooms
                 /\ AddAsset(a, r) )
               => (txn'.outcome = "committed" /\ a \in DOMAIN assets'
                   /\ assets'[a].room_id = r)
        /\ txn'.op = "add Room" =>
             \A r \in RoomIds, f \in FloorIds, a \in AssetIds :
               ( /\ r \notin DOMAIN rooms
                 /\ f \in DOMAIN floors
                 /\ a \in DOMAIN assets
                 /\ AddRoom(r, f, a) )
               => (txn'.outcome = "committed" /\ r \in DOMAIN rooms'
                   /\ rooms'[r].reference_door_asset_id = a)
        /\ txn'.op = "set Room.reference_door" =>
             \A r \in RoomIds, a \in AssetIds :
               ( /\ a \in DOMAIN assets
                 /\ assets[a].room_id = r
                 /\ SetReferenceDoor(r, a) )
               => (txn'.outcome = "committed" /\ MutualPair(r, a)')
        /\ txn'.op = "set Asset.room" =>
             \A r \in RoomIds, a \in AssetIds :
               ( /\ r \in DOMAIN rooms
                 /\ rooms[r].reference_door_asset_id = a
                 /\ SetAssetRoom(a, r) )
               => (txn'.outcome = "committed" /\ MutualPair(r, a)') ]_vars

C6_Witness ==
    /\ txn = [op |-> "set Asset.room", outcome |-> "committed"]
    /\ \E r \in RoomIds, a \in AssetIds : MutualPair(r, a)

\* ---- C7.  Deleting an Asset that a Room references as its reference door
\* succeeds: the Asset is removed, whatever Rooms point at it.
C7_ReferencedAssetCanBeDeleted ==
    [][ \A a \in AssetIds :
          ( /\ \E r \in DOMAIN rooms : rooms[r].reference_door_asset_id = a
            /\ txn'.op = "delete Asset"
            /\ DeleteAsset(a) )
          => (txn'.outcome = "committed" /\ a \notin DOMAIN assets') ]_vars

\* ---- C8.  In every committed store state each Room's
\* reference_door_asset_id is null or the id of an Asset in storage.
C8_ReferenceDoorExists ==
    \A r \in DOMAIN rooms :
        \/ rooms[r].reference_door_asset_id = NULL
        \/ rooms[r].reference_door_asset_id \in DOMAIN assets

C8_Witness ==
    /\ txn = [op |-> "delete Asset", outcome |-> "rolled_back"]
    /\ \E r \in DOMAIN rooms : rooms[r].reference_door_asset_id \in DOMAIN assets

\* No Connection and no Journal row references an Asset that is not stored.
NoDanglingAssetReference ==
    /\ \A c \in DOMAIN connections :
           /\ connections[c].from_asset_id \in DOMAIN assets
           /\ connections[c].to_asset_id \in DOMAIN assets
    /\ \A j \in DOMAIN journal : journal[j].asset_id \in DOMAIN assets

\* ---- C9.  Deleting an Asset deletes exactly the Connections that have it
\* as from_asset_id or to_asset_id and the Journal entries on it, and those
\* rows never hold the delete up (only a Room using the Asset as reference
\* door does); so no Connection or Journal row ever references an Asset that
\* is not in storage.
C9_AssetDeleteCascades ==
    /\ []NoDanglingAssetReference
    /\ [][ \A a \in AssetIds :
             (txn'.op = "delete Asset" /\ DeleteAsset(a)) =>
               /\ (\A r \in DOMAIN rooms : rooms[r].reference_door_asset_id # a)
                    => txn'.outcome = "committed"
               /\ txn'.outcome = "committed" =>
                    /\ a \notin DOMAIN assets'
                    /\ DOMAIN connections' = DOMAIN connections \ ConnectionsOn({a})
                    /\ DOMAIN journal' = DOMAIN journal \ JournalOn({a})
                    /\ Kept(connections, connections', ConnectionsOn({a}))
                    /\ Kept(journal, journal', JournalOn({a})) ]_vars

C9_Witness ==
    /\ txn = [op |-> "delete Asset", outcome |-> "committed"]
    /\ journal_seq > 0
    /\ journal = EmptyTable
    /\ connections = EmptyTable
    /\ Cardinality(DOMAIN assets) = 1
    /\ Rows = 1

\* A delete that took the buildings B, floors F and rooms R (and nothing
\* else) left every other row of every table as it was.
OnlyDownward(B, F, R) ==
    /\ properties' = properties
    /\ DOMAIN buildings' = DOMAIN buildings \ B
    /\ DOMAIN floors' = DOMAIN floors \ F
    /\ DOMAIN rooms' = DOMAIN rooms \ R
    /\ Kept(buildings, buildings', B)
    /\ Kept(floors, floors', F)
    /\ Kept(rooms, rooms', R)
    /\ Kept(assets, assets', AssetsIn(R))
    /\ Kept(connections, connections', {})
    /\ Kept(journal, journal', {})

\* ---- C10.  Deleting a Building, a Floor or a Room removes rows only
\* downward: the Property, Building and Floor above it, its siblings and
\* everything in their subtrees stay in storage unchanged.
C10_DeleteIsDownwardOnly ==
    [][ /\ \A b \in BuildingIds :
             (txn'.op = "delete Building" /\ DeleteBuilding(b)) =>
               OnlyDownward({b}, FloorsIn({b}), RoomsIn(FloorsIn({b})))
        /\ \A f \in FloorIds :
             (txn'.op = "delete Floor" /\ DeleteFloor(f)) => OnlyDownward({}, {f}, RoomsIn({f}))
        /\ \A r \in RoomIds :
             (txn'.op = "delete Room" /\ DeleteRoom(r)) => OnlyDownward({}, {}, {r}) ]_vars

C10_Witness ==
    /\ txn = [op |-> "delete Building", outcome |-> "committed"]
    /\ Cardinality(DOMAIN properties) = 1
    /\ Cardinality(DOMAIN buildings) = 1
    /\ Cardinality(DOMAIN floors) = 1
    /\ Cardinality(DOMAIN rooms) = 1

====
